---- MODULE Spec2Model ----
(***************************************************************************)
(* Model of plugins/win-capture/duplicator-monitor-capture.c: the capture  *)
(* session (struct duplicator_capture), its handlers update_settings,      *)
(* create, update, destroy, video_tick, video_render, get_width and        *)
(* get_height, and the graphics subsystem calls they make.                 *)
(*                                                                         *)
(* Time is counted in units of 1/Resolution second, so the float           *)
(* accumulator reset_timeout and the tick argument seconds are integers.   *)
(***************************************************************************)
EXTENDS Integers, Sequences, FiniteSets, TLC

(* ------------------------------ bounds -------------------------------- *)

\* time units per second
Resolution == 2
\* largest texture width / height the duplicator reports
MaxDim == 2
\* number of duplicator objects the graphics subsystem can hold at once
MaxLive == 2
\* passes of the default effect's "Draw" technique: 0 .. MaxPasses
MaxPasses == 1

(* --------------------------- program constants ------------------------ *)

RESET_INTERVAL_SEC == 3

NULL == 0

\* the reset interval in time units
ResetInterval == RESET_INTERVAL_SEC * Resolution

\* one second in time units
OneSecond == Resolution

\* rotations a monitor may report; 45 stands for any value outside the
\* four the render switch handles
Rotations == {0, 90, 180, 270, 45}

\* tick arguments: nothing, one time unit, one second, a whole interval
Deltas == {0, 1, OneSecond, ResetInterval}

\* monitor indices the settings can select
Monitors == {0, 1}

\* positions <<x, y>> of a monitor on the virtual desktop
MonitorOrigins == {<<0, 0>>, <<-1, 2>>}

Handles == 1 .. MaxLive

VARIABLES
    phase,      \* "new": bzalloc'ed, "live": created, "destroyed": bfree'd
    capture,    \* struct duplicator_capture
    live,       \* duplicator objects that exist in the graphics subsystem
    depth,      \* nesting of obs_enter_graphics / obs_leave_graphics
    freed_twice,\* a duplicator that does not exist was destroyed
    cursor_frees, \* number of cursor_data_free calls
    calls,      \* external calls made by the last handler, in order
    last,       \* the last handler run and its arguments
    answers,    \* what the graphics subsystem answered the last handler
    stable,     \* the host keeps the source shown and the monitor available
    waited      \* history: seconds of the visible ticks that found no
                \* duplicator, since the last creation attempt or loss

vars == <<phase, capture, live, depth, freed_twice, cursor_frees, calls,
          last, answers, stable, waited>>

(* ----------------------- struct duplicator_capture -------------------- *)

\* bzalloc(sizeof(struct duplicator_capture))
ZeroCapture ==
    [monitor |-> 0, capture_cursor |-> FALSE,
     x |-> 0, y |-> 0, rot |-> 0, width |-> 0, height |-> 0,
     duplicator |-> NULL, reset_timeout |-> 0]

\* The world a handler runs in: the struct, the graphics subsystem and the
\* trace of calls made so far.
World ==
    [c |-> capture, live |-> live, depth |-> depth,
     freed_twice |-> freed_twice, cursor_frees |-> cursor_frees,
     calls |-> <<>>]

Call(w, call) == [w EXCEPT !.calls = Append(@, call)]

\* what the last call of the trace returned
Returned(w) == w.calls[Len(w.calls)][3]

\* sequencing of statements: F runs in the world that v evaluates to
Then(v, F(_)) == CHOOSE r \in {F(x) : x \in {v}} : TRUE

(* ------------------------- graphics subsystem ------------------------- *)

obs_enter_graphics(w) == [Call(w, <<"enter">>) EXCEPT !.depth = @ + 1]

obs_leave_graphics(w) == [Call(w, <<"leave">>) EXCEPT !.depth = @ - 1]

\* the handle gs_duplicator_create returns: a new object, or NULL on failure
NewDuplicator(w, ok) ==
    IF ok /\ Handles \ w.live # {}
    THEN CHOOSE d \in Handles \ w.live : \A e \in Handles \ w.live : d <= e
    ELSE NULL

gs_duplicator_create(w, mon, ok) ==
    Then(NewDuplicator(w, ok), LAMBDA d :
         [Call(w, <<"create", mon, d>>) EXCEPT
             !.live = IF d = NULL THEN @ ELSE @ \cup {d}])

\* destroying NULL does nothing
gs_duplicator_destroy(w, d) ==
    [Call(w, <<"destroy", d>>) EXCEPT
        !.live = @ \ {d},
        !.freed_twice = @ \/ (d # NULL /\ d \notin w.live)]

gs_duplicator_update_frame(w, d, ok) == Call(w, <<"update", d, ok>>)

cursor_capture(w) == Call(w, <<"cursor_capture">>)

cursor_data_free(w) ==
    [Call(w, <<"cursor_free">>) EXCEPT !.cursor_frees = @ + 1]

(* ----------------------------- handlers ------------------------------- *)

\* update_settings without the reset of the retry timer
update_settings_keep_timeout(w, mon, cur, ok) ==
    Then([w EXCEPT !.c.monitor = mon, !.c.capture_cursor = cur], LAMBDA w0 :
    Then(obs_enter_graphics(w0), LAMBDA w1 :
    Then(gs_duplicator_destroy(w1, w1.c.duplicator), LAMBDA w2 :
    Then(gs_duplicator_create(w2, w2.c.monitor, ok), LAMBDA w3 :
    obs_leave_graphics(
        [w3 EXCEPT !.c.duplicator = Returned(w3),
                   !.c.width = 0, !.c.height = 0,
                   !.c.x = 0, !.c.y = 0, !.c.rot = 0])))))

\* update_settings without the destruction of the duplicator it holds
update_settings_no_destroy(w, mon, cur, ok) ==
    Then([w EXCEPT !.c.monitor = mon, !.c.capture_cursor = cur], LAMBDA w0 :
    Then(obs_enter_graphics(w0), LAMBDA w2 :
    Then(gs_duplicator_create(w2, w2.c.monitor, ok), LAMBDA w3 :
    obs_leave_graphics(
        [w3 EXCEPT !.c.duplicator = Returned(w3),
                   !.c.width = 0, !.c.height = 0,
                   !.c.x = 0, !.c.y = 0, !.c.rot = 0,
                   !.c.reset_timeout = 0]))))

\* update_settings(capture, settings): settings carry monitor and
\* capture_cursor; ok is the outcome of gs_duplicator_create
update_settings(w, mon, cur, ok) ==
    Then([w EXCEPT !.c.monitor = mon, !.c.capture_cursor = cur], LAMBDA w0 :
    Then(obs_enter_graphics(w0), LAMBDA w1 :
    Then(gs_duplicator_destroy(w1, w1.c.duplicator), LAMBDA w2 :
    Then(gs_duplicator_create(w2, w2.c.monitor, ok), LAMBDA w3 :
    obs_leave_graphics(
        [w3 EXCEPT !.c.duplicator = Returned(w3),
                   !.c.width = 0, !.c.height = 0,
                   !.c.x = 0, !.c.y = 0, !.c.rot = 0,
                   !.c.reset_timeout = 0])))))

duplicator_capture_destroy(w) ==
    Then(obs_enter_graphics(w), LAMBDA w1 :
    Then(gs_duplicator_destroy(w1, w1.c.duplicator), LAMBDA w2 :
    Then(cursor_data_free(w2), LAMBDA w3 :
    obs_leave_graphics(w3))))

\* reset_capture_data: q is what the graphics subsystem answers,
\* q.tw, q.th the width and height gs_texture_get_width / _height return
\* for the duplicator's texture (0 when it has no texture yet),
\* q.found whether gs_get_duplicator_monitor_info filled monitor_info, and
\* q.x, q.y, q.rot the monitor_info it filled
reset_capture_data(w, q) ==
    Then(IF q.found THEN [x |-> q.x, y |-> q.y, rot |-> q.rot]
         ELSE [x |-> 0, y |-> 0, rot |-> 0], LAMBDA monitor_info :
    Then(Call(w, <<"get_texture", w.c.duplicator, q.tw, q.th>>), LAMBDA w1 :
    Then(Call(w1, <<"monitor_info", w1.c.monitor, q.found>>), LAMBDA w2 :
    [w2 EXCEPT !.c.width = q.tw, !.c.height = q.th,
               !.c.x = monitor_info.x, !.c.y = monitor_info.y,
               !.c.rot = monitor_info.rot])))

\* the creation attempt that resets the timer only when it fails
RetryCreate_reset_on_failure(w, create_ok) ==
    Then(gs_duplicator_create(w, w.c.monitor, create_ok), LAMBDA w1 :
    [w1 EXCEPT !.c.duplicator = Returned(w1),
               !.c.reset_timeout = IF Returned(w1) = NULL THEN 0 ELSE @])

\* the timed retry attempts a creation
RetryCreate(w, create_ok) ==
    Then(gs_duplicator_create(w, w.c.monitor, create_ok), LAMBDA w1 :
    [w1 EXCEPT !.c.duplicator = Returned(w1), !.c.reset_timeout = 0])

\* the timed retry with > for >=
TickRetry_strict(w, seconds, create_ok) ==
    IF w.c.duplicator = NULL
    THEN Then([w EXCEPT !.c.reset_timeout = @ + seconds], LAMBDA w1 :
         IF w1.c.reset_timeout > ResetInterval
         THEN RetryCreate(w1, create_ok)
         ELSE w1)
    ELSE w

\* the timed retry with = for +=
TickRetry_no_accumulate(w, seconds, create_ok) ==
    IF w.c.duplicator = NULL
    THEN Then([w EXCEPT !.c.reset_timeout = seconds], LAMBDA w1 :
         IF w1.c.reset_timeout >= ResetInterval
         THEN RetryCreate(w1, create_ok)
         ELSE w1)
    ELSE w

\* the timed retry that counts the seconds of a tick twice
TickRetry_double_count(w, seconds, create_ok) ==
    IF w.c.duplicator = NULL
    THEN Then([w EXCEPT !.c.reset_timeout = @ + 2 * seconds], LAMBDA w1 :
         IF w1.c.reset_timeout >= ResetInterval
         THEN RetryCreate(w1, create_ok)
         ELSE w1)
    ELSE w

\* the first block of duplicator_capture_tick: the timed retry
TickRetry(w, seconds, create_ok) ==
    IF w.c.duplicator = NULL
    THEN Then([w EXCEPT !.c.reset_timeout = @ + seconds], LAMBDA w1 :
         IF w1.c.reset_timeout >= ResetInterval
         THEN RetryCreate(w1, create_ok)
         ELSE w1)
    ELSE w

\* the failure branch of the frame update: destroy and reset everything
FrameLost(w) ==
    Then(gs_duplicator_destroy(w, w.c.duplicator), LAMBDA w1 :
    [w1 EXCEPT !.c.duplicator = NULL,
               !.c.width = 0, !.c.height = 0,
               !.c.x = 0, !.c.y = 0, !.c.rot = 0,
               !.c.reset_timeout = 0])

\* the frame update whose failure path leaves width and height
TickFrame_keep_size(w, update_ok, q) ==
    IF w.c.duplicator # NULL
    THEN Then(IF w.c.capture_cursor THEN cursor_capture(w) ELSE w,
              LAMBDA w1 :
         Then(gs_duplicator_update_frame(w1, w1.c.duplicator, update_ok),
              LAMBDA w2 :
         IF ~Returned(w2)
         THEN Then(gs_duplicator_destroy(w2, w2.c.duplicator), LAMBDA w3 :
              [w3 EXCEPT !.c.duplicator = NULL,
                         !.c.x = 0, !.c.y = 0, !.c.rot = 0,
                         !.c.reset_timeout = 0])
         ELSE IF w2.c.width = 0
         THEN reset_capture_data(w2, q)
         ELSE w2))
    ELSE w

\* the frame update whose failure path leaves the destroyed handle
TickFrame_keep_handle(w, update_ok, q) ==
    IF w.c.duplicator # NULL
    THEN Then(IF w.c.capture_cursor THEN cursor_capture(w) ELSE w,
              LAMBDA w1 :
         Then(gs_duplicator_update_frame(w1, w1.c.duplicator, update_ok),
              LAMBDA w2 :
         IF ~Returned(w2)
         THEN Then(gs_duplicator_destroy(w2, w2.c.duplicator), LAMBDA w3 :
              [w3 EXCEPT !.c.width = 0, !.c.height = 0,
                         !.c.x = 0, !.c.y = 0, !.c.rot = 0,
                         !.c.reset_timeout = 0])
         ELSE IF w2.c.width = 0
         THEN reset_capture_data(w2, q)
         ELSE w2))
    ELSE w

\* the frame update with the test of the width sentinel inverted
TickFrame_no_refresh(w, update_ok, q) ==
    IF w.c.duplicator # NULL
    THEN Then(IF w.c.capture_cursor THEN cursor_capture(w) ELSE w,
              LAMBDA w1 :
         Then(gs_duplicator_update_frame(w1, w1.c.duplicator, update_ok),
              LAMBDA w2 :
         IF ~Returned(w2)
         THEN FrameLost(w2)
         ELSE IF w2.c.width # 0
         THEN reset_capture_data(w2, q)
         ELSE w2))
    ELSE w

\* the frame update that refreshes the geometry after every frame
TickFrame_always_refresh(w, update_ok, q) ==
    IF w.c.duplicator # NULL
    THEN Then(IF w.c.capture_cursor THEN cursor_capture(w) ELSE w,
              LAMBDA w1 :
         Then(gs_duplicator_update_frame(w1, w1.c.duplicator, update_ok),
              LAMBDA w2 :
         IF ~Returned(w2)
         THEN FrameLost(w2)
         ELSE reset_capture_data(w2, q)))
    ELSE w

\* the frame update that samples the cursor only once the geometry is known
TickFrame_cursor_when_sized(w, update_ok, q) ==
    IF w.c.duplicator # NULL
    THEN Then(IF w.c.capture_cursor /\ w.c.width # 0
              THEN cursor_capture(w) ELSE w,
              LAMBDA w1 :
         Then(gs_duplicator_update_frame(w1, w1.c.duplicator, update_ok),
              LAMBDA w2 :
         IF ~Returned(w2)
         THEN FrameLost(w2)
         ELSE IF w2.c.width = 0
         THEN reset_capture_data(w2, q)
         ELSE w2))
    ELSE w

\* the second block of duplicator_capture_tick: the frame update
TickFrame(w, update_ok, q) ==
    IF w.c.duplicator # NULL
    THEN Then(IF w.c.capture_cursor THEN cursor_capture(w) ELSE w,
              LAMBDA w1 :
         Then(gs_duplicator_update_frame(w1, w1.c.duplicator, update_ok),
              LAMBDA w2 :
         IF ~Returned(w2)
         THEN FrameLost(w2)
         ELSE IF w2.c.width = 0
         THEN reset_capture_data(w2, q)
         ELSE w2))
    ELSE w

\* the tick without the test of obs_source_showing
duplicator_capture_tick_hidden(w, showing, seconds, create_ok, update_ok, q) ==
    Then(obs_enter_graphics(w), LAMBDA w1 :
    Then(TickRetry(w1, seconds, create_ok), LAMBDA w2 :
    Then(TickFrame(w2, update_ok, q), LAMBDA w3 :
    obs_leave_graphics(w3))))

\* the tick that enters the graphics scope before the test of
\* obs_source_showing
duplicator_capture_tick_early_enter(w, showing, seconds, create_ok, update_ok, q) ==
    Then(obs_enter_graphics(w), LAMBDA w1 :
    IF ~showing THEN w1
    ELSE Then(TickRetry(w1, seconds, create_ok), LAMBDA w2 :
         Then(TickFrame(w2, update_ok, q), LAMBDA w3 :
         obs_leave_graphics(w3))))

\* the tick that leaves the frame update of a duplicator it has just
\* created to the next tick
duplicator_capture_tick_frame_next_tick(w, showing, seconds, create_ok, update_ok, q) ==
    IF ~showing THEN w
    ELSE Then(obs_enter_graphics(w), LAMBDA w1 :
         Then(TickRetry(w1, seconds, create_ok), LAMBDA w2 :
         Then(IF w1.c.duplicator = NULL THEN w2
              ELSE TickFrame(w2, update_ok, q), LAMBDA w3 :
         obs_leave_graphics(w3))))

duplicator_capture_tick(w, showing, seconds, create_ok, update_ok, q) ==
    IF ~showing THEN w
    ELSE Then(obs_enter_graphics(w), LAMBDA w1 :
         Then(TickRetry(w1, seconds, create_ok), LAMBDA w2 :
         Then(TickFrame(w2, update_ok, q), LAMBDA w3 :
         obs_leave_graphics(w3))))

\* the width with % 90 for % 180
duplicator_capture_width_mod90(c) ==
    IF c.rot % 90 = 0 THEN c.width ELSE c.height

duplicator_capture_width(c) ==
    IF c.rot % 180 = 0 THEN c.width ELSE c.height

duplicator_capture_height(c) ==
    IF c.rot % 180 = 0 THEN c.height ELSE c.width

\* draw_cursor with the raw width and height for the clip box
draw_cursor_raw_clip(w) ==
    Call(w, <<"cursor_draw", 0 - w.c.x, 0 - w.c.y, 1, 1,
              w.c.width, w.c.height>>)

\* cursor_draw(&cursor_data, x_offset, y_offset, x_scale, y_scale, width,
\* height)
draw_cursor(w) ==
    Call(w, <<"cursor_draw", 0 - w.c.x, 0 - w.c.y, 1, 1,
              IF w.c.rot % 180 = 0 THEN w.c.width ELSE w.c.height,
              IF w.c.rot % 180 = 0 THEN w.c.height ELSE w.c.width>>)

\* the translation with the cached width for the height at 90 degrees
RenderOffset_90_width(c, ux, uy) ==
    CASE c.rot = 90  -> <<c.width, 0>>
      [] c.rot = 180 -> <<c.width, c.height>>
      [] c.rot = 270 -> <<0, c.width>>
      [] OTHER       -> <<ux, uy>>

\* the translation the switch of duplicator_capture_render computes; ux, uy
\* are the values the uninitialized x and y hold when no case matches
RenderOffset(c, ux, uy) ==
    CASE c.rot = 90  -> <<c.height, 0>>
      [] c.rot = 180 -> <<c.width, c.height>>
      [] c.rot = 270 -> <<0, c.width>>
      [] OTHER       -> <<ux, uy>>

\* gs_enable_blending(on) followed by gs_enable_color(true, true, true, on)
Blend(w, on) == Call(Call(w, <<"blending", on>>), <<"color_alpha", on>>)

\* the body of the effect loop of duplicator_capture_render: one pass
RenderPass(w, ux, uy) ==
    Then(RenderOffset(w.c, ux, uy), LAMBDA xy :
    Then(Blend(w, FALSE), LAMBDA w0 :
    Then(IF w0.c.rot # 0
         THEN Call(Call(Call(w0, <<"matrix_push">>),
                        <<"translate", xy[1], xy[2]>>),
                   <<"rotate", w0.c.rot>>)
         ELSE w0, LAMBDA w1 :
    Then(Call(w1, <<"draw">>), LAMBDA w2 :
    Then(IF w2.c.rot # 0 THEN Call(w2, <<"matrix_pop">>) ELSE w2,
         LAMBDA w3 :
    Then(Blend(w3, TRUE), LAMBDA w4 :
    IF w4.c.capture_cursor THEN draw_cursor(w4) ELSE w4))))))

\* the effect loop: gs_effect_loop(effect, "Draw") returns true passes
\* times and then false
RECURSIVE RenderLoop(_, _, _, _)
RenderLoop(w, passes, ux, uy) ==
    IF passes = 0 THEN Call(w, <<"effect_loop", "Draw", FALSE>>)
    ELSE Then(Call(w, <<"effect_loop", "Draw", TRUE>>), LAMBDA w0 :
         Then(RenderPass(w0, ux, uy), LAMBDA w1 :
         RenderLoop(w1, passes - 1, ux, uy)))

\* has_texture: gs_duplicator_get_texture returned a texture
duplicator_capture_render(w, has_texture, passes, ux, uy) ==
    IF w.c.duplicator = NULL THEN w
    ELSE Then(Call(w, <<"render_texture", w.c.duplicator, has_texture>>),
              LAMBDA w1 :
         IF ~Returned(w1) THEN w1
         ELSE RenderLoop(w1, passes, ux, uy))

(* ------------------------------ actions ------------------------------- *)

\* what reset_capture_data can be answered
Textures == {<<0, 0>>} \cup ((1 .. MaxDim) \X (1 .. MaxDim))

Queries ==
    {[tw |-> t[1], th |-> t[2], found |-> TRUE, x |-> o[1], y |-> o[2],
      rot |-> r] :
        t \in Textures, o \in MonitorOrigins, r \in Rotations}
    \cup
    {[tw |-> t[1], th |-> t[2], found |-> FALSE, x |-> 0, y |-> 0,
      rot |-> 0] : t \in Textures}

\* the answers of an available monitor: a texture of non-zero size
GoodQueries == {q \in Queries : q.tw > 0 /\ q.th > 0}

\* the record of a handler run: its name and, for a tick, what
\* obs_source_showing answered and the seconds it was passed
Ran(op, showing, seconds) ==
    [op |-> op, showing |-> showing, seconds |-> seconds]

\* the answer recorded for a question the handler did not ask
Unasked(S) == CHOOSE a \in S : TRUE

\* the answers to draw for a question: all of them when the handler asks
\* it (or there is only one), one fixed answer when it does not
Answers(S, asked) ==
    IF S = {Unasked(S)} \/ asked THEN S ELSE {Unasked(S)}

\* the answers of gs_duplicator_create, gs_duplicator_update_frame and of
\* the geometry query of reset_capture_data
Answered(create_ok, update_ok, q) ==
    [create_ok |-> create_ok, update_ok |-> update_ok, q |-> q]

\* the handler returns: the world it leaves becomes the state
Commit(w) ==
    /\ capture' = w.c
    /\ live' = w.live
    /\ depth' = w.depth
    /\ freed_twice' = w.freed_twice
    /\ cursor_frees' = w.cursor_frees
    /\ calls' = w.calls

Init ==
    /\ phase = "new"
    /\ capture = ZeroCapture
    /\ live = {}
    /\ depth = 0
    /\ freed_twice = FALSE
    /\ cursor_frees = 0
    /\ calls = <<>>
    /\ last = [op |-> "alloc", showing |-> FALSE, seconds |-> 0]
    /\ answers = Answered(Unasked(BOOLEAN), Unasked(BOOLEAN),
                          Unasked(Queries))
    /\ stable = FALSE
    /\ waited = 0

\* duplicator_capture_create
Create ==
    /\ phase = "new"
    /\ last' = Ran("create", FALSE, 0)
    /\ \E mon \in Monitors, cur \in BOOLEAN, ok \in BOOLEAN :
          /\ answers' = Answered(ok, Unasked(BOOLEAN), Unasked(Queries))
          /\ \E w \in {update_settings(World, mon, cur, ok)} : Commit(w)
    /\ phase' = "live"
    /\ waited' = 0
    /\ UNCHANGED stable

\* duplicator_capture_update
Update ==
    /\ phase = "live"
    /\ ~stable
    /\ last' = Ran("update", FALSE, 0)
    /\ \E mon \in Monitors, cur \in BOOLEAN, ok \in BOOLEAN :
          /\ answers' = Answered(ok, Unasked(BOOLEAN), Unasked(Queries))
          /\ \E w \in {update_settings(World, mon, cur, ok)} : Commit(w)
    /\ waited' = 0
    /\ UNCHANGED <<phase, stable>>

Destroy ==
    /\ phase = "live"
    /\ ~stable
    /\ last' = Ran("destroy", FALSE, 0)
    /\ answers' = Answered(Unasked(BOOLEAN), Unasked(BOOLEAN),
                           Unasked(Queries))
    /\ \E w \in {duplicator_capture_destroy(World)} : Commit(w)
    /\ phase' = "destroyed"
    /\ UNCHANGED <<stable, waited>>

\* the handler made a call to the named function
Made(w, name) ==
    \E x \in {w} : \E i \in DOMAIN x.calls : x.calls[i][1] = name

\* the history after a tick that made the calls tr: a creation attempt or
\* the loss of the duplicator starts it again, a visible tick that found no
\* duplicator adds its seconds (counted up to the reset interval)
Waited(showing, seconds, tr) ==
    IF \E i \in DOMAIN tr :
          \/ tr[i][1] = "create"
          \/ (tr[i][1] = "update" /\ ~tr[i][3])
    THEN 0
    ELSE IF showing /\ capture.duplicator = NULL
    THEN IF waited + seconds < ResetInterval
         THEN waited + seconds ELSE ResetInterval
    ELSE waited

\* the runs of duplicator_capture_tick for one visibility and one length,
\* over the answers of the graphics subsystem drawn from Oks and Qs
TickRuns(showing, seconds, Oks, Qs) ==
    \E create_ok \in Answers(Oks,
           Made(duplicator_capture_tick(World, showing, seconds,
                    Unasked(Oks), Unasked(Oks), Unasked(Qs)), "create")) :
    \E update_ok \in Answers(Oks,
           Made(duplicator_capture_tick(World, showing, seconds,
                    create_ok, Unasked(Oks), Unasked(Qs)), "update")) :
    \E q \in Answers(Qs,
           Made(duplicator_capture_tick(World, showing, seconds,
                    create_ok, update_ok, Unasked(Qs)), "monitor_info")) :
       /\ answers' = Answered(create_ok, update_ok, q)
       /\ \E w \in {duplicator_capture_tick(World, showing, seconds,
                                            create_ok, update_ok, q)} :
             Commit(w) /\ waited' = Waited(showing, seconds, w.calls)

\* duplicator_capture_tick
Tick ==
    /\ phase = "live"
    /\ \E showing \in (IF stable THEN {TRUE} ELSE BOOLEAN),
          seconds \in (IF stable THEN Deltas \ {0} ELSE Deltas) :
          /\ last' = Ran("tick", showing, seconds)
          /\ TickRuns(showing, seconds,
                      IF stable THEN {TRUE} ELSE BOOLEAN,
                      IF stable THEN GoodQueries ELSE Queries)
    /\ UNCHANGED <<phase, stable>>

\* values an uninitialized float may hold
Garbage == {0, MaxDim + 1}

\* duplicator_capture_render
Render ==
    /\ phase = "live"
    /\ last' = Ran("render", FALSE, 0)
    /\ answers' = Answered(Unasked(BOOLEAN), Unasked(BOOLEAN),
                           Unasked(Queries))
    /\ \E has_texture \in Answers(BOOLEAN, capture.duplicator # NULL) :
       \E passes \in Answers(0 .. MaxPasses,
                             capture.duplicator # NULL /\ has_texture) :
       \E ux \in Answers(Garbage, capture.rot \notin {0, 90, 180, 270}),
          uy \in Answers(Garbage, capture.rot \notin {0, 90, 180, 270}) :
       \E w \in {duplicator_capture_render(World, has_texture, passes,
                                             ux, uy)} :
          Commit(w)
    /\ UNCHANGED <<phase, stable, waited>>

\* from here on the source stays shown, is not reconfigured or destroyed,
\* and the monitor is available
Settle ==
    /\ phase = "live"
    /\ ~stable
    /\ stable' = TRUE
    /\ UNCHANGED <<phase, capture, live, depth, freed_twice, cursor_frees,
                   calls, last, answers, waited>>

Next == Create \/ Update \/ Destroy \/ Tick \/ Render \/ Settle

Spec == Init /\ [][Next]_vars

\* a tick of the settled source
SettledTick == stable /\ Tick

\* the host calls video_tick on every frame
LiveSpec == Init /\ [][Next]_vars /\ WF_vars(SettledTick)

(* ------------------------------ properties ---------------------------- *)

Unbound == capture.duplicator = NULL

BoundUnsized == capture.duplicator # NULL /\ capture.width = 0

BoundSized == capture.duplicator # NULL /\ capture.width > 0

GeometryZero(c) ==
    c.width = 0 /\ c.height = 0 /\ c.x = 0 /\ c.y = 0 /\ c.rot = 0

\* how many calls to the named function the trace holds
NumCalls(tr, name) == Cardinality({i \in DOMAIN tr : tr[i][1] = name})

\* the trace holds a gs_duplicator_update_frame call that failed
UpdateFailed(tr) == \E i \in DOMAIN tr : tr[i][1] = "update" /\ ~tr[i][3]

\* the trace holds a gs_duplicator_update_frame call that succeeded
UpdateSucceeded(tr) == \E i \in DOMAIN tr : tr[i][1] = "update" /\ tr[i][3]

\* the step is one run of duplicator_capture_tick
TickStep == last'.op = "tick" /\ stable' = stable

\* the graphics scope nesting before call i of the trace
Held(tr, i) ==
    Cardinality({j \in 1 .. (i - 1) : tr[j][1] = "enter"})
        - Cardinality({j \in 1 .. (i - 1) : tr[j][1] = "leave"})

\* C1: while the session exists, a NULL duplicator implies that the cached
\* width and height are 0.
C1_NullHandleHasNoSize ==
    (phase # "destroyed" /\ capture.duplicator = NULL)
        => (capture.width = 0 /\ capture.height = 0)

\* a tick lost the duplicator through a failed frame update
C1_Witness ==
    /\ phase = "live" /\ last.op = "tick" /\ capture.duplicator = NULL
    /\ UpdateFailed(calls)

\* C2: right after update_settings (from create or update) the cached
\* width, height, x, y, rot and the retry timer are all 0, with or without
\* a new duplicator.
C2_ConfigureResets ==
    last.op \in {"create", "update"}
        => (GeometryZero(capture) /\ capture.reset_timeout = 0)

\* a reconfiguration destroyed a duplicator and failed to get a new one
C2_Witness ==
    /\ last.op = "update" /\ capture.duplicator = NULL
    /\ \E i \in DOMAIN calls : calls[i][1] = "destroy" /\ calls[i][2] # NULL

\* C3: a visible tick that starts without a duplicator calls
\* gs_duplicator_create once if the timer plus seconds reaches 3.0 and not
\* at all otherwise; an attempt leaves the timer 0 whatever its outcome,
\* no attempt leaves the sum; so with ticks of 1.0 from a timer of 0 the
\* first and second tick make no attempt and the third makes one.
C3_RetryGate ==
    [][(TickStep /\ last'.showing /\ capture.duplicator = NULL) =>
        LET attempts == NumCalls(calls', "create")
            sum == capture.reset_timeout + last'.seconds
        IN  /\ attempts = IF sum >= RESET_INTERVAL_SEC * OneSecond
                          THEN 1 ELSE 0
            /\ attempts = 1 => capture'.reset_timeout = 0
            /\ attempts = 0 => capture'.reset_timeout = sum
            /\ \A k \in 0 .. 2 :
                  (capture.reset_timeout = k * OneSecond
                   /\ last'.seconds = OneSecond)
                      => attempts = IF k = 2 THEN 1 ELSE 0]_vars

\* a tick of one second made an attempt that failed
C3_Witness ==
    /\ last.op = "tick" /\ last.showing /\ last.seconds = OneSecond
    /\ \E i \in DOMAIN calls : calls[i][1] = "create" /\ calls[i][3] = NULL
    /\ capture.duplicator = NULL /\ capture.reset_timeout = 0

\* C4: a tick whose frame update failed has destroyed that duplicator and
\* returns with a NULL handle, zero geometry and a zero timer; a NULL
\* handle never goes with non-zero geometry.
C4_FrameFailureColdRestart ==
    /\ (last.op = "tick" /\ UpdateFailed(calls)) =>
          /\ capture.duplicator = NULL
          /\ GeometryZero(capture)
          /\ capture.reset_timeout = 0
          /\ \A i \in DOMAIN calls :
                calls[i][1] = "update" =>
                   /\ calls[i][2] \notin live
                   /\ \E j \in DOMAIN calls :
                         j > i /\ calls[j] = <<"destroy", calls[i][2]>>
    /\ (phase # "destroyed" /\ capture.duplicator = NULL)
          => GeometryZero(capture)

\* a tick that started with a duplicator lost it
C4_Witness ==
    /\ last.op = "tick" /\ UpdateFailed(calls)
    /\ NumCalls(calls, "create") = 0

\* C5: a tick while the source is not showing changes no field of the
\* session and no duplicator, and makes no call at all.
C5_HiddenTickIsNoOp ==
    [][(TickStep /\ ~last'.showing) =>
        /\ capture' = capture
        /\ live' = live
        /\ depth' = depth
        /\ cursor_frees' = cursor_frees
        /\ freed_twice' = freed_twice
        /\ calls' = <<>>]_vars

\* a hidden tick of positive length found the retry timer running
C5_Witness ==
    /\ last.op = "tick" /\ ~last.showing /\ last.seconds > 0
    /\ capture.duplicator = NULL /\ capture.reset_timeout > 0

\* C6: once the source stays shown, is ticked with positive seconds, is
\* not reconfigured and the monitor is available, the session becomes
\* Bound-Sized and stays so.
C6_Recovery == stable ~> [](BoundSized)

\* a tick created the duplicator and sized it while the monitor stays
\* available
C6_Witness ==
    /\ stable /\ BoundSized /\ last.op = "tick"
    /\ NumCalls(calls, "create") = 1

\* C7: every gs_duplicator_create, gs_duplicator_destroy and
\* gs_duplicator_update_frame call is made inside the graphics scope, a
\* handler leaves the scope as often as it enters it, and no scope is held
\* between handlers.
C7_GraphicsScope ==
    /\ depth = 0
    /\ NumCalls(calls, "enter") = NumCalls(calls, "leave")
    /\ \A i \in DOMAIN calls :
          calls[i][1] \in {"create", "destroy", "update"}
              => Held(calls, i) > 0

\* the destroy handler released a duplicator
C7_Witness ==
    /\ last.op = "destroy"
    /\ \E i \in DOMAIN calls : calls[i][1] = "destroy" /\ calls[i][2] # NULL

\* C8: at most one duplicator exists, the handle is non-NULL exactly when
\* it names the one that exists, nothing is destroyed twice, configure
\* destroys before it creates, and after destroy no duplicator exists and
\* the cursor data was freed once.
C8_ExclusiveOwnership ==
    /\ Cardinality(live) <= 1
    /\ ~freed_twice
    /\ phase # "destroyed" =>
          /\ live = IF capture.duplicator = NULL THEN {}
                    ELSE {capture.duplicator}
          /\ cursor_frees = 0
    /\ phase = "destroyed" => (live = {} /\ cursor_frees = 1)
    /\ last.op \in {"create", "update"} =>
          \E i, j \in DOMAIN calls :
              i < j /\ calls[i][1] = "destroy" /\ calls[j][1] = "create"

\* a reconfiguration replaced one duplicator by another
C8_Witness ==
    /\ last.op = "update" /\ capture.duplicator # NULL
    /\ \E i \in DOMAIN calls : calls[i][1] = "destroy" /\ calls[i][2] # NULL

\* C9: for a rotation of 0 or 180 get_width and get_height report the
\* cached width and height, for 90 or 270 they report them swapped, and
\* mapping the reported pair again with the same rotation gives the cached
\* pair back.
C9_EffectiveDimensions ==
    capture.rot \in {0, 90, 180, 270} =>
        LET ew == duplicator_capture_width(capture)
            eh == duplicator_capture_height(capture)
            again == [capture EXCEPT !.width = ew, !.height = eh]
        IN  /\ capture.rot \in {0, 180}
                => (ew = capture.width /\ eh = capture.height)
            /\ capture.rot \in {90, 270}
                => (ew = capture.height /\ eh = capture.width)
            /\ duplicator_capture_width(again) = capture.width
            /\ duplicator_capture_height(again) = capture.height

\* a monitor rotated by 90 degrees with a texture that is not square
C9_Witness ==
    /\ capture.rot = 90 /\ capture.width > 0
    /\ capture.width # capture.height

\* C10 as stated: a visible tick that starts Bound-Unsized and whose frame
\* update succeeds makes one geometry query and returns Bound-Sized.
C10_AlwaysSized ==
    [][(TickStep /\ last'.showing /\ BoundUnsized /\ UpdateSucceeded(calls'))
        => /\ NumCalls(calls', "get_texture") = 1
           /\ NumCalls(calls', "monitor_info") = 1
           /\ capture'.duplicator # NULL /\ capture'.width > 0]_vars

\* C10 amended: such a tick makes one geometry query, keeps the handle and
\* caches the texture size it was answered, so it returns Bound-Sized
\* exactly when the answered width is not 0.
C10_SizedWhenTextureHasWidth ==
    [][(TickStep /\ last'.showing /\ BoundUnsized /\ UpdateSucceeded(calls'))
        => /\ NumCalls(calls', "get_texture") = 1
           /\ NumCalls(calls', "monitor_info") = 1
           /\ capture'.duplicator = capture.duplicator
           /\ \A i \in DOMAIN calls' :
                 calls'[i][1] = "get_texture" =>
                    /\ capture'.width = calls'[i][3]
                    /\ capture'.height = calls'[i][4]
                    /\ (capture'.width > 0) <=> (calls'[i][3] > 0)]_vars

\* a tick sized a duplicator that an earlier handler had created
C10_Witness ==
    /\ last.op = "tick" /\ BoundSized
    /\ NumCalls(calls, "create") = 0
    /\ NumCalls(calls, "monitor_info") = 1

\* the cached geometry of the session
Geometry(c) == <<c.width, c.height, c.x, c.y, c.rot>>

\* C11: a visible tick that starts Bound-Sized and whose frame update
\* succeeds asks for no texture and no monitor info and leaves every field
\* of the session as it was, whatever the monitor would now report; and the
\* geometry of a Bound-Sized session changes only in a reconfiguration or
\* in a tick whose frame update fails.
C11_SizedTickKeepsGeometry ==
    [][/\ (TickStep /\ last'.showing /\ BoundSized
              /\ UpdateSucceeded(calls'))
          => /\ NumCalls(calls', "get_texture") = 0
             /\ NumCalls(calls', "monitor_info") = 0
             /\ capture' = capture
       /\ (BoundSized /\ Geometry(capture') # Geometry(capture))
          => \/ last'.op \in {"create", "update"}
             \/ (TickStep /\ UpdateFailed(calls'))]_vars

\* a tick updated the frame of a sized duplicator of a rotated monitor
C11_Witness ==
    /\ last.op = "tick" /\ last.showing /\ BoundSized
    /\ UpdateSucceeded(calls)
    /\ NumCalls(calls, "monitor_info") = 0
    /\ capture.rot = 90 /\ capture.x # 0

\* the rotations the render switch has a case for, and no rotation
PermittedRotations == {0, 90, 180, 270}

\* C12 as stated: the cached rotation is always one of 0, 90, 180, 270, and
\* render never rotates by anything else: a rotation outside the four that
\* the monitor info reports is stored and rendered as 0.
C12_RotationPermitted ==
    /\ capture.rot \in PermittedRotations
    /\ \A i \in DOMAIN calls :
          calls[i][1] = "rotate" => calls[i][2] \in PermittedRotations

\* the monitor reported a rotation outside the four, the tick cached it as
\* reported, and render translated by the uninitialized x and y and rotated
\* by that rotation
C12_Witness ==
    /\ last.op = "render"
    /\ capture.rot \notin PermittedRotations
    /\ \E i \in DOMAIN calls :
          /\ calls[i] = <<"rotate", capture.rot>>
          /\ calls[i - 1][1] = "translate"
          /\ calls[i - 1][2] = MaxDim + 1

\* the render handler was answered that the duplicator has a texture
TextureYielded(tr) ==
    \E i \in DOMAIN tr : tr[i][1] = "render_texture" /\ tr[i][3]

\* C13 as stated: render draws nothing without a duplicator or without a
\* texture, and it issues no draw while the session is Bound-Unsized.
C13_NoDrawUnlessSized ==
    last.op = "render" =>
        /\ (capture.duplicator = NULL \/ ~TextureYielded(calls))
              => (NumCalls(calls, "draw") = 0
                  /\ NumCalls(calls, "cursor_draw") = 0)
        /\ BoundUnsized => NumCalls(calls, "draw") = 0

\* render drew the texture of a duplicator whose geometry no tick had
\* sampled yet
C13_Witness ==
    /\ last.op = "render" /\ BoundUnsized /\ GeometryZero(capture)
    /\ TextureYielded(calls)
    /\ NumCalls(calls, "draw") > 0

\* the handler asked for the monitor info and the monitor was not found
MonitorNotFound(tr) ==
    \E i \in DOMAIN tr : tr[i][1] = "monitor_info" /\ ~tr[i][3]

\* C14 as stated: a geometry refresh whose monitor info is not found does
\* not make the session Bound-Sized, and the render that follows it draws
\* nothing.
C14_NotFoundLeavesUnsized ==
    [][/\ (TickStep /\ MonitorNotFound(calls')) => capture'.width = 0
       /\ (last.op = "tick" /\ MonitorNotFound(calls)
              /\ last'.op = "render")
          => NumCalls(calls', "draw") = 0]_vars

\* the monitor was not found and the tick sized the session from the
\* texture, with the origin and rotation of a zeroed monitor info
C14_Witness ==
    /\ last.op = "tick" /\ MonitorNotFound(calls)
    /\ BoundSized /\ capture.height > 0
    /\ capture.x = 0 /\ capture.y = 0 /\ capture.rot = 0

\* the calls of a render trace that loop, transform or draw the quad
QuadCalls(tr) ==
    SelectSeq(tr, LAMBDA call :
        call[1] \in {"effect_loop", "matrix_push", "translate", "rotate",
                     "draw", "matrix_pop"})

\* the transform calls the rotation asks for before the quad is drawn
TransformFor(rot, w, h) ==
    CASE rot = 0   -> <<>>
      [] rot = 90  -> <<<<"matrix_push">>, <<"translate", h, 0>>,
                        <<"rotate", 90>>>>
      [] rot = 180 -> <<<<"matrix_push">>, <<"translate", w, h>>,
                        <<"rotate", 180>>>>
      [] rot = 270 -> <<<<"matrix_push">>, <<"translate", 0, w>>,
                        <<"rotate", 270>>>>

\* the loop, transform and draw calls of n passes
RECURSIVE QuadPasses(_, _)
QuadPasses(c, n) ==
    IF n = 0 THEN <<<<"effect_loop", "Draw", FALSE>>>>
    ELSE <<<<"effect_loop", "Draw", TRUE>>>>
         \o TransformFor(c.rot, c.width, c.height)
         \o <<<<"draw">>>>
         \o (IF c.rot = 0 THEN <<>> ELSE <<<<"matrix_pop">>>>)
         \o QuadPasses(c, n - 1)

\* the number of passes the effect loop of a render trace ran
PassesRun(tr) ==
    Cardinality({i \in DOMAIN tr : tr[i][1] = "effect_loop" /\ tr[i][3]})

\* C15: when render draws, each pass draws the quad once; with rotation 0
\* it pushes, translates, rotates and pops nothing; with 90 it pushes,
\* translates by (height, 0), rotates by 90, draws and pops; with 180 it
\* translates by (width, height) and rotates by 180; with 270 it translates
\* by (0, width) and rotates by 270; pushes and pops are as many.
C15_RenderTransform ==
    (last.op = "render" /\ TextureYielded(calls)) =>
        /\ NumCalls(calls, "draw") = PassesRun(calls)
        /\ NumCalls(calls, "matrix_push") = NumCalls(calls, "matrix_pop")
        /\ capture.rot \in PermittedRotations
              => QuadCalls(calls) = QuadPasses(capture, PassesRun(calls))

\* render drew the quad of a monitor rotated by 90 degrees whose texture is
\* not square
C15_Witness ==
    /\ last.op = "render" /\ capture.rot = 90
    /\ capture.width # capture.height
    /\ NumCalls(calls, "draw") > 0
    /\ NumCalls(calls, "matrix_push") > 0

\* C16: render draws the cursor as often as it draws the quad when
\* capture_cursor is set and never when it is not; each cursor draw comes
\* after the quad draw of its pass, with blending enabled, at offset
\* (-x, -y), with scale (1, 1) and the clip box (height, width) for a
\* rotation of 90 or 270 and (width, height) for 0 or 180.
C16_CursorOverlay ==
    last.op = "render" =>
        /\ NumCalls(calls, "cursor_draw") =
              IF capture.capture_cursor THEN NumCalls(calls, "draw") ELSE 0
        /\ \A i \in DOMAIN calls :
              calls[i][1] = "cursor_draw" =>
                 /\ \E j \in 1 .. (i - 1) :
                       /\ calls[j][1] = "draw"
                       /\ \A k \in (j + 1) .. (i - 1) :
                             calls[k][1] \notin {"effect_loop", "draw",
                                                 "cursor_draw"}
                       /\ \E k \in (j + 1) .. (i - 1) :
                             calls[k] = <<"blending", TRUE>>
                 /\ calls[i][2] = 0 - capture.x
                 /\ calls[i][3] = 0 - capture.y
                 /\ calls[i][4] = 1 /\ calls[i][5] = 1
                 /\ capture.rot \in {90, 270} =>
                       (calls[i][6] = capture.height
                        /\ calls[i][7] = capture.width)
                 /\ capture.rot \in {0, 180} =>
                       (calls[i][6] = capture.width
                        /\ calls[i][7] = capture.height)

\* render drew the cursor over the quad of a monitor that is rotated by 270
\* degrees, is not at the origin and whose texture is not square
C16_Witness ==
    /\ last.op = "render" /\ capture.capture_cursor
    /\ capture.rot = 270 /\ capture.width # capture.height
    /\ capture.x # 0
    /\ NumCalls(calls, "cursor_draw") > 0

\* the handler created a duplicator
Acquired(tr) == \E i \in DOMAIN tr : tr[i][1] = "create" /\ tr[i][3] # NULL

\* C17 as stated: a visible tick that starts Unbound and whose timed
\* creation succeeds returns Bound-Unsized with zero geometry, without
\* having requested a frame or queried the geometry.
C17_AcquiredTickReturnsUnsized ==
    [][(TickStep /\ last'.showing /\ Unbound /\ Acquired(calls'))
        => /\ capture'.duplicator # NULL
           /\ GeometryZero(capture')
           /\ NumCalls(calls', "update") = 0
           /\ NumCalls(calls', "get_texture") = 0]_vars

\* C17 amended: such a tick requests a frame from the new duplicator
\* before it returns, with a timer of 0; when the frame update succeeds it
\* makes the one geometry query itself, keeps the new handle and caches
\* the answered texture size, so it returns Bound-Sized unless the answered
\* width is 0; when the frame update fails it destroys the new duplicator
\* and returns Unbound with zero geometry.
C17_AcquiredTickUpdatesFrame ==
    [][(TickStep /\ last'.showing /\ Unbound /\ Acquired(calls'))
        => /\ NumCalls(calls', "create") = 1
           /\ NumCalls(calls', "update") = 1
           /\ capture'.reset_timeout = 0
           /\ \A i, j \in DOMAIN calls' :
                 (calls'[i][1] = "create" /\ calls'[j][1] = "update")
                    => (i < j /\ calls'[j][2] = calls'[i][3])
           /\ UpdateSucceeded(calls') =>
                 /\ NumCalls(calls', "get_texture") = 1
                 /\ NumCalls(calls', "monitor_info") = 1
                 /\ \A i \in DOMAIN calls' :
                       /\ calls'[i][1] = "create"
                             => capture'.duplicator = calls'[i][3]
                       /\ calls'[i][1] = "get_texture"
                             => /\ capture'.width = calls'[i][3]
                                /\ capture'.height = calls'[i][4]
           /\ UpdateFailed(calls') =>
                 /\ capture'.duplicator = NULL
                 /\ GeometryZero(capture')
                 /\ live' = {}
                 /\ NumCalls(calls', "get_texture") = 0]_vars

\* the tick that created the duplicator after the reset interval also
\* sized it, for a monitor that is not at the origin
C17_Witness ==
    /\ last.op = "tick" /\ last.showing /\ Acquired(calls)
    /\ UpdateSucceeded(calls)
    /\ BoundSized /\ capture.x # 0

\* C18: a visible tick samples the cursor once, before it requests the
\* frame, when a duplicator is bound after the timed retry and
\* capture_cursor is set, and not at all otherwise; the width, and whether
\* the frame update then fails, make no difference; a tick that has no
\* duplicator after the timed retry neither samples the cursor nor requests
\* a frame.
C18_CursorSampling ==
    [][(TickStep /\ last'.showing) =>
        LET bound == capture.duplicator # NULL \/ Acquired(calls')
        IN  /\ NumCalls(calls', "update") = IF bound THEN 1 ELSE 0
            /\ NumCalls(calls', "cursor_capture") =
                  IF bound /\ capture'.capture_cursor THEN 1 ELSE 0
            /\ capture'.capture_cursor = capture.capture_cursor
            /\ \A i, j \in DOMAIN calls' :
                  (calls'[i][1] = "cursor_capture"
                   /\ calls'[j][1] = "update") => i < j
            /\ \A i, j \in DOMAIN calls' :
                  (calls'[i][1] = "cursor_capture"
                   /\ calls'[j][1] = "create") => j < i]_vars

\* a tick sampled the cursor for a duplicator it had just created and whose
\* frame update then failed
C18_Witness ==
    /\ last.op = "tick" /\ last.showing
    /\ NumCalls(calls, "cursor_capture") = 1
    /\ Acquired(calls) /\ UpdateFailed(calls)

\* C19: a tick that calls gs_duplicator_create is visible, starts without a
\* duplicator, makes one attempt, and the seconds passed to the visible
\* ticks without a duplicator since the last attempt (by a tick or by
\* update_settings) or loss of the duplicator, its own included, amount to
\* the reset interval at least.
C19_MinimumInterval ==
    [][(TickStep /\ NumCalls(calls', "create") > 0)
        => /\ last'.showing
           /\ capture.duplicator = NULL
           /\ NumCalls(calls', "create") = 1
           /\ waited + last'.seconds >= RESET_INTERVAL_SEC * Resolution]_vars

\* a tick of one time unit made the attempt: the interval was reached over
\* several ticks
C19_Witness ==
    /\ last.op = "tick" /\ last.showing /\ last.seconds = 1
    /\ NumCalls(calls, "create") = 1

\* C20: between handlers the retry timer is at least 0 and below the reset
\* interval, and it is 0 whenever a duplicator is bound.
C20_TimerRange ==
    phase # "destroyed" =>
        /\ capture.reset_timeout >= 0
        /\ capture.reset_timeout < RESET_INTERVAL_SEC * Resolution
        /\ capture.duplicator # NULL => capture.reset_timeout = 0
        /\ capture.reset_timeout # 0 => capture.duplicator = NULL

\* the timer is one time unit short of the reset interval
C20_Witness ==
    /\ last.op = "tick" /\ capture.duplicator = NULL
    /\ capture.reset_timeout = RESET_INTERVAL_SEC * Resolution - 1

====
